---- MODULE Spec2Model ----
(***************************************************************************)
(* DuckLake API gateway (src/ducklake-api-gateway/server.py): one shared   *)
(* DuckDB handle (the global db_conn), created lazily by get_connection(), *)
(* and the request handlers that query the lake through it.                *)
(*                                                                         *)
(* Caller 0 is the thread that runs the module: either the __main__ block  *)
(* (python3 server.py), which calls get_connection() before app.run(), or  *)
(* an import by a WSGI host, which runs no start-up code at all and begins *)
(* to dispatch requests to the handlers with db_conn still None.  Callers  *)
(* 1..NWorkers are the request threads of the server.                      *)
(*                                                                         *)
(* GET /stats/network (one query after get_connection(), like GET /ledgers)*)
(* is not modelled, nor is what DuckDB does when several threads use one   *)
(* connection at once.                                                     *)
(***************************************************************************)
EXTENDS Integers, Sequences, FiniteSets, TLC

\* ---- bounds of the model ------------------------------------------------
NWorkers == 2       \* request threads
MaxInit == 2        \* init_ducklake_connection() runs explored
MaxSeq == 2         \* highest ledger sequence of the snapshot tables
MaxLedger == 3      \* highest sequence of ledgers_row_v2
MaxLimit == 2       \* highest ?limit= a request carries
MaxNative == 2      \* rows of native_balances_snapshot_v1
MaxTrust == 2       \* rows of trustlines_snapshot_v1

\* ---- values ---------------------------------------------------------------
None == -1          \* Python's None (db_conn = None, MAX() of no rows)
Scale == 10000000   \* stroops per unit

Workers == 1..NWorkers
Callers == 0..NWorkers
Handles == 1..MaxInit
Seqs == 1..MaxSeq
LedgerSeqs == 1..MaxLedger
Accounts == {"GA", "GB"}
AssetCodes == {"USDC", "EURC"}   \* asset codes a request may name
HeldAssets == {"USDC"}           \* asset codes that have trustlines in the lake
Balances == {0, Scale, 2 * Scale}

VARIABLES
    env,        \* which required settings the environment holds (non-empty)
    db_conn,    \* the global handle: None or a handle
    handle,     \* per handle: the last statement of init run on it, and whether it raised
    ninit,      \* handles created so far (duckdb.connect calls)
    firstReady, \* history: the first handle ever stored in db_conn
    pc,         \* per caller: where it is
    path,       \* per caller: how its get_connection() call went ("fast": db_conn was set)
    lconn,      \* per caller: init_ducklake_connection's local conn
    conn,       \* per caller: what get_connection() returned
    req,        \* per worker: the request being handled
    latest,     \* per worker: latest_ledger
    xlm,        \* per worker: xlm_result
    nq,         \* per worker: conn.execute calls of this request so far
    resp,       \* per worker: the response being sent
    ledgers,    \* catalog.testnet.ledgers_row_v2 (by sequence)
    native,     \* catalog.testnet.native_balances_snapshot_v1
    trust       \* catalog.testnet.trustlines_snapshot_v1

lifecycle == <<db_conn, handle, ninit, firstReady>>
locals == <<path, lconn, conn, req, latest, xlm, nq, resp>>
tables == <<ledgers, native, trust>>
vars == <<env, db_conn, handle, ninit, firstReady, pc, path, lconn, conn, req,
          latest, xlm, nq, resp, ledgers, native, trust>>

\* ---- requests and responses ----------------------------------------------
NoReq == [kind |-> "none", account_id |-> "", asset_code |-> "",
          limit |-> 0, sequence_min |-> 0, sequence |-> 0, min_balance |-> 0]

\* The data endpoints.  A request's parameters (path and query string) are
\* private to its thread and never change: the model draws each where the
\* handler first uses it in a query.
Kinds == {"ledgers", "ledger", "balances", "holders"}

NoResp == [status |-> 0, err |-> "", connection |-> "", ledger_sequence |-> None,
           rows |-> <<>>, count |-> 0, queries |-> 0]

\* jsonify(...) of a handler's result: HTTP 200.
Ok(rows, seq, n) ==
    [NoResp EXCEPT !.status = 200, !.rows = rows, !.count = Len(rows),
                   !.ledger_sequence = seq, !.queries = n]

\* jsonify({'error': ...}), 404.
NotFound(n) == [NoResp EXCEPT !.status = 404, !.queries = n]

\* An exception that leaves the handler: Flask answers 500 (debug=False).
\* err is history: which statement raised.
ServerError(why, n) == [NoResp EXCEPT !.status = 500, !.err = why, !.queries = n]

\* ---- the environment and the engine ---------------------------------------
\* Faulty variant: the check of line 49 looks at the key id alone.
HasCredentialsKeyIdOnly == env.key_id

\* os.getenv('S3_KEY_ID'), os.getenv('S3_SECRET'): "not s3_key_id or not s3_secret".
HasCredentials == env.key_id /\ env.secret

\* os.getenv('CATALOG_URL'): "not catalog_url".
HasCatalogUrl == env.catalog_url

\* The server dispatches requests: app.run() was reached, or a WSGI host
\* imported the module and serves its app.
Serving == pc[0] \in {"serving", "imported"}

\* A handle on which every statement of init_ducklake_connection() has run.
Ready(h) == h \in Handles /\ handle[h].stage = "warmup" /\ ~handle[h].raised

\* ATTACH statements executed so far, over all handles.
Attaches == Cardinality({h \in Handles : handle[h].stage \in {"attach", "warmup"}})

\* init_ducklake_connection() runs that ended in an exception.
Failures == Cardinality({h \in Handles : handle[h].raised})

\* ---- control ---------------------------------------------------------------
Goto(c, where) == pc' = [pc EXCEPT ![c] = where]

\* An exception leaves the caller: the __main__ block dies with it (no
\* try/except around line 385), a request thread answers 500.
Raise(c, why) ==
    /\ pc' = [pc EXCEPT ![c] = IF c = 0 THEN "exited" ELSE "respond"]
    /\ resp' = IF c = 0 THEN resp ELSE [resp EXCEPT ![c] = ServerError(why, nq[c])]

\* The handler's first statement after "conn = get_connection()".
AfterConnection(c) ==
    IF c = 0 THEN "serving"
    ELSE CASE req[c].kind = "ledgers" -> "ledgers_q"
           [] req[c].kind = "ledger" -> "ledger_q"
           [] req[c].kind = "balances" -> "bal_resolve"
           [] OTHER -> "hold_resolve"

\* ---- __main__ ----------------------------------------------------------------
\* Line 385: get_connection() before app.run().
MainStart ==
    /\ pc[0] = "main_start"
    /\ Goto(0, "gc_check")
    /\ UNCHANGED <<env, lifecycle, locals, tables>>

\* ---- get_connection ----------------------------------------------------------
\* Line 94: if db_conn is None.
GcCheck(c) ==
    /\ pc[c] = "gc_check"
    /\ IF db_conn = None
         THEN Goto(c, "init_install") /\ path' = [path EXCEPT ![c] = "slow"]
         ELSE Goto(c, "gc_return") /\ path' = [path EXCEPT ![c] = "fast"]
    /\ UNCHANGED <<env, lifecycle, lconn, conn, req, latest, xlm, nq, resp, tables>>

\* Faulty variant: init works on the global, db_conn = duckdb.connect(...), from its first line.
InitInstallOnGlobal(c) ==
    /\ pc[c] = "init_install"
    /\ ninit < MaxInit
    /\ \E ok \in BOOLEAN :
         /\ ninit' = ninit + 1
         /\ lconn' = [lconn EXCEPT ![c] = ninit + 1]
         /\ db_conn' = ninit + 1
         /\ firstReady' = IF firstReady = None THEN ninit + 1 ELSE firstReady
         /\ handle' = [handle EXCEPT ![ninit + 1] = [stage |-> "install", raised |-> ~ok]]
         /\ IF ok THEN Goto(c, "init_secret") /\ UNCHANGED resp
                  ELSE Raise(c, "init")
    /\ UNCHANGED <<env, path, conn, req, latest, xlm, nq, tables>>

\* Lines 33-40: duckdb.connect and INSTALL/LOAD of the two extensions.
InitInstall(c) ==
    /\ pc[c] = "init_install"
    /\ ninit < MaxInit
    /\ \E ok \in BOOLEAN :
         /\ ninit' = ninit + 1
         /\ lconn' = [lconn EXCEPT ![c] = ninit + 1]
         /\ handle' = [handle EXCEPT ![ninit + 1] = [stage |-> "install", raised |-> ~ok]]
         /\ IF ok THEN Goto(c, "init_secret") /\ UNCHANGED resp
                  ELSE Raise(c, "init")
    /\ UNCHANGED <<env, db_conn, firstReady, path, conn, req, latest, xlm, nq, tables>>

\* Lines 44-61: the credentials check, then CREATE SECRET.
InitSecret(c) ==
    /\ pc[c] = "init_secret"
    /\ IF ~HasCredentials
         THEN /\ handle' = [handle EXCEPT ![lconn[c]].raised = TRUE]
              /\ Raise(c, "config")
         ELSE \E ok \in BOOLEAN :
                /\ handle' = [handle EXCEPT ![lconn[c]] = [stage |-> "secret", raised |-> ~ok]]
                /\ IF ok THEN Goto(c, "init_attach") /\ UNCHANGED resp
                         ELSE Raise(c, "init")
    /\ UNCHANGED <<env, db_conn, ninit, firstReady, path, lconn, conn, req, latest,
                   xlm, nq, tables>>

\* Lines 65-76: the catalog locator check, then ATTACH.
InitAttach(c) ==
    /\ pc[c] = "init_attach"
    /\ IF ~HasCatalogUrl
         THEN /\ handle' = [handle EXCEPT ![lconn[c]].raised = TRUE]
              /\ Raise(c, "config")
         ELSE \E ok \in BOOLEAN :
                /\ handle' = [handle EXCEPT ![lconn[c]] = [stage |-> "attach", raised |-> ~ok]]
                /\ IF ok THEN Goto(c, "init_warmup") /\ UNCHANGED resp
                         ELSE Raise(c, "init")
    /\ UNCHANGED <<env, db_conn, ninit, firstReady, path, lconn, conn, req, latest,
                   xlm, nq, tables>>

\* Lines 81-89: the warm-up probe, then "return conn".
InitWarmup(c) ==
    /\ pc[c] = "init_warmup"
    /\ \E ok \in BOOLEAN :
         /\ handle' = [handle EXCEPT ![lconn[c]] = [stage |-> "warmup", raised |-> ~ok]]
         /\ IF ok THEN Goto(c, "gc_assign") /\ UNCHANGED resp
                  ELSE Raise(c, "init")
    /\ UNCHANGED <<env, db_conn, ninit, firstReady, path, lconn, conn, req, latest,
                   xlm, nq, tables>>

\* Line 95: db_conn = <what init_ducklake_connection returned>.
GcAssign(c) ==
    /\ pc[c] = "gc_assign"
    /\ db_conn' = lconn[c]
    /\ firstReady' = IF firstReady = None THEN lconn[c] ELSE firstReady
    /\ Goto(c, "gc_return")
    /\ UNCHANGED <<env, handle, ninit, locals, tables>>

\* Line 96: return db_conn (the global, read again).
GcReturn(c) ==
    /\ pc[c] = "gc_return"
    /\ conn' = [conn EXCEPT ![c] = db_conn]
    /\ Goto(c, AfterConnection(c))
    /\ UNCHANGED <<env, lifecycle, path, lconn, req, latest, xlm, nq, resp, tables>>

\* ---- requests ----------------------------------------------------------------
\* A request for a data endpoint arrives at an idle thread; every data handler
\* begins with conn = get_connection() (lines 120, 157, 203, 287).
StartRequest(t) ==
    /\ pc[t] = "idle"
    /\ Serving
    /\ \E k \in Kinds : req' = [req EXCEPT ![t].kind = k]
    /\ Goto(t, "gc_check")
    /\ UNCHANGED <<env, lifecycle, path, lconn, conn, latest, xlm, nq, resp, tables>>

\* Faulty variant: the conditional of line 103 is inverted.
HealthInverted(t) ==
    /\ pc[t] = "idle"
    /\ Serving
    /\ req' = [req EXCEPT ![t] = [NoReq EXCEPT !.kind = "health"]]
    /\ resp' = [resp EXCEPT ![t] =
                  [NoResp EXCEPT !.status = 200,
                                 !.connection = IF db_conn = None THEN "active"
                                                ELSE "not_initialized"]]
    /\ Goto(t, "respond")
    /\ UNCHANGED <<env, lifecycle, path, lconn, conn, latest, xlm, nq, tables>>

\* Lines 98-105: GET /health.
Health(t) ==
    /\ pc[t] = "idle"
    /\ Serving
    /\ req' = [req EXCEPT ![t] = [NoReq EXCEPT !.kind = "health"]]
    /\ resp' = [resp EXCEPT ![t] =
                  [NoResp EXCEPT !.status = 200,
                                 !.connection = IF db_conn # None THEN "active"
                                                ELSE "not_initialized"]]
    /\ Goto(t, "respond")
    /\ UNCHANGED <<env, lifecycle, path, lconn, conn, latest, xlm, nq, tables>>

\* The response leaves the server; the thread is free for the next request.
Deliver(t) ==
    /\ pc[t] = "respond"
    /\ Goto(t, "idle")
    /\ path' = [path EXCEPT ![t] = "none"]
    /\ lconn' = [lconn EXCEPT ![t] = None]
    /\ conn' = [conn EXCEPT ![t] = None]
    /\ req' = [req EXCEPT ![t] = NoReq]
    /\ latest' = [latest EXCEPT ![t] = None]
    /\ xlm' = [xlm EXCEPT ![t] = <<>>]
    /\ nq' = [nq EXCEPT ![t] = 0]
    /\ resp' = [resp EXCEPT ![t] = NoResp]
    /\ UNCHANGED <<env, lifecycle, tables>>

\* ---- what the engine computes ------------------------------------------------
Max(S) == CHOOSE m \in S : \A x \in S : x <= m

Min2(a, b) == IF a <= b THEN a ELSE b

\* SELECT MAX(ledger_sequence) over rows: NULL (None) when there are none.
MaxSequence(rows) ==
    IF rows = {} THEN None ELSE Max({r.ledger_sequence : r \in rows})

\* Every order in which the engine may hand back a set of rows.
Orderings(S) ==
    {q \in [1..Cardinality(S) -> S] : \A i, j \in 1..Cardinality(S) : i # j => q[i] # q[j]}

\* LIMIT n.
Limit(q, n) == SubSeq(q, 1, Min2(n, Len(q)))

\* CAST(balance AS DOUBLE) / 10000000.0; the amounts of the model are whole
\* units, for which the quotient is exact.
ToUnits(stroops) == stroops \div Scale

\* Faulty variant: the bound of line 132 is inclusive.
LedgersWhereInclusive(sequence, sequence_min) == sequence >= sequence_min

\* Line 132: WHERE sequence > {sequence_min}.
LedgersWhere(sequence, sequence_min) == sequence > sequence_min

\* Line 133: ORDER BY sequence DESC (sequence is the key of ledgers_row_v2).
RECURSIVE OrderBySequenceDesc(_)
OrderBySequenceDesc(S) ==
    IF S = {} THEN <<>>
    ELSE <<[sequence |-> Max(S)]>> \o OrderBySequenceDesc(S \ {Max(S)})

\* Lines 123-135: the query of GET /ledgers.
LedgersQuery(sequence_min, limit) ==
    Limit(OrderBySequenceDesc({s \in ledgers : LedgersWhere(s, sequence_min)}), limit)

\* Lines 161-177: the query of GET /ledgers/<sequence>, fetchone().
LedgerQuery(sequence) == OrderBySequenceDesc({s \in ledgers : s = sequence})

\* Faulty variant: latest_ledger_query without its WHERE account_id = ... clause.
LatestLedgerQueryWholeTable(account_id) == MaxSequence(native)

\* Lines 207-213: latest_ledger_query, fetchone()[0].
LatestLedgerQuery(account_id) ==
    MaxSequence({r \in native : r.account_id = account_id})

\* Faulty variant: line 216 tests "not result" alone; fetchone() of an aggregate is
\* never empty.
AccountNotFoundRowOnly(result) == FALSE

\* Line 216: if not result or result[0] is None.
AccountNotFound(result) == result = None

\* Lines 223-235: xlm_query, pinned to latest_ledger.
XlmQuery(account_id, latest_ledger) ==
    {[asset_code |-> "XLM", balance |-> ToUnits(r.balance),
      ledger_sequence |-> r.ledger_sequence] :
        r \in {x \in native : /\ x.account_id = account_id
                              /\ x.ledger_sequence = latest_ledger}}

\* Faulty variant: tokens_query resolves its own latest sequence over the trustlines.
TokensQueryOwnLatest(account_id, latest_ledger) ==
    LET mine == {x \in trust : x.account_id = account_id /\ x.balance > 0}
    IN  {[asset_code |-> r.asset_code, balance |-> ToUnits(r.balance),
          ledger_sequence |-> r.ledger_sequence] :
            r \in {x \in mine : x.ledger_sequence = MaxSequence(mine)}}

\* Faulty variant: tokens_query without "AND CAST(balance AS DOUBLE) > 0".
TokensQueryAnyBalance(account_id, latest_ledger) ==
    {[asset_code |-> r.asset_code, balance |-> ToUnits(r.balance),
      ledger_sequence |-> r.ledger_sequence] :
        r \in {x \in trust : /\ x.account_id = account_id
                             /\ x.ledger_sequence = latest_ledger}}

\* Lines 239-252: tokens_query, pinned to latest_ledger.
TokensQuery(account_id, latest_ledger) ==
    {[asset_code |-> r.asset_code, balance |-> ToUnits(r.balance),
      ledger_sequence |-> r.ledger_sequence] :
        r \in {x \in trust : /\ x.account_id = account_id
                             /\ x.ledger_sequence = latest_ledger
                             /\ x.balance > 0}}

\* Lines 291-295: MAX(ledger_sequence) over the whole trustline table.
HoldersLatestQuery == MaxSequence(trust)

\* Faulty variant: the WHERE clause without "AND ledger_sequence = {latest_ledger}".
HoldersWhereUnpinned(r, asset_code, latest_ledger, min_balance) ==
    /\ r.asset_code = asset_code
    /\ r.balance > min_balance * Scale

\* Lines 306-309: the WHERE clause of the holders query.
HoldersWhere(r, asset_code, latest_ledger, min_balance) ==
    /\ r.asset_code = asset_code
    /\ r.ledger_sequence = latest_ledger
    /\ r.balance > min_balance * Scale

\* Lines 299-312: the holders query; ORDER BY balance DESC leaves ties to the engine.
HoldersQuery(asset_code, latest_ledger, min_balance, limit) ==
    LET match == {r \in trust : HoldersWhere(r, asset_code, latest_ledger, min_balance)}
        shaped(r) == [account_id |-> r.account_id, asset_code |-> r.asset_code,
                      balance |-> ToUnits(r.balance)]
    IN  {Limit([i \in 1..Len(q) |-> shaped(q[i])], limit) :
            q \in {o \in Orderings(match) :
                     \A i, j \in 1..Len(o) : i < j => o[i].balance >= o[j].balance}}

\* ---- the data handlers ---------------------------------------------------------
\* One conn.execute(...) of a handler is counted.
Execute(t) == nq' = [nq EXCEPT ![t] = nq[t] + 1]

\* Faulty variant: the handler catches the exception and answers "not found".
RaiseQAsNotFound(t, why) ==
    /\ pc' = [pc EXCEPT ![t] = "respond"]
    /\ resp' = [resp EXCEPT ![t] = NotFound(nq[t] + 1)]

\* conn.execute(...) raises in a handler (I/O failure, engine error): 500.
RaiseQ(t, why) ==
    /\ pc' = [pc EXCEPT ![t] = "respond"]
    /\ resp' = [resp EXCEPT ![t] = ServerError(why, nq[t] + 1)]

\* Lines 137-150: GET /ledgers.
GetLedgers(t) ==
    /\ pc[t] = "ledgers_q"
    /\ \E limit \in 0..MaxLimit, sequence_min \in 0..MaxLedger, ok \in BOOLEAN :
         /\ req' = [req EXCEPT ![t].limit = limit, ![t].sequence_min = sequence_min]
         /\ Execute(t)
         /\ IF ok
              THEN /\ resp' = [resp EXCEPT ![t] =
                        Ok(LedgersQuery(sequence_min, limit), None, nq[t] + 1)]
                   /\ Goto(t, "respond")
              ELSE RaiseQ(t, "engine")
    /\ UNCHANGED <<env, lifecycle, path, lconn, conn, latest, xlm, tables>>

\* Lines 157-195: GET /ledgers/<sequence>.
GetLedger(t) ==
    /\ pc[t] = "ledger_q"
    /\ \E sequence \in LedgerSeqs, ok \in BOOLEAN :
         /\ req' = [req EXCEPT ![t].sequence = sequence]
         /\ Execute(t)
         /\ IF ok
              THEN /\ resp' = [resp EXCEPT ![t] =
                        IF LedgerQuery(sequence) = <<>>
                          THEN NotFound(nq[t] + 1)
                          ELSE Ok(LedgerQuery(sequence), None, nq[t] + 1)]
                   /\ Goto(t, "respond")
              ELSE RaiseQ(t, "engine")
    /\ UNCHANGED <<env, lifecycle, path, lconn, conn, latest, xlm, tables>>

\* Lines 205-219: GET /balances/<account_id>, the resolution of latest_ledger.
BalancesResolve(t) ==
    /\ pc[t] = "bal_resolve"
    /\ \E account_id \in Accounts, ok \in BOOLEAN :
         /\ req' = [req EXCEPT ![t].account_id = account_id]
         /\ Execute(t)
         /\ IF ~ok
              THEN RaiseQ(t, "engine") /\ UNCHANGED latest
              ELSE IF AccountNotFound(LatestLedgerQuery(account_id))
                THEN /\ resp' = [resp EXCEPT ![t] = NotFound(nq[t] + 1)]
                     /\ Goto(t, "respond")
                     /\ UNCHANGED latest
                ELSE /\ latest' = [latest EXCEPT ![t] = LatestLedgerQuery(account_id)]
                     /\ Goto(t, "bal_xlm")
                     /\ UNCHANGED resp
    /\ UNCHANGED <<env, lifecycle, path, lconn, conn, xlm, tables>>

\* Line 256: xlm_result = conn.execute(xlm_query).fetchall().
BalancesXlm(t) ==
    /\ pc[t] = "bal_xlm"
    /\ \E ok \in BOOLEAN :
         /\ Execute(t)
         /\ IF ~ok
              THEN RaiseQ(t, "engine") /\ UNCHANGED xlm
              ELSE /\ \E q \in Orderings(XlmQuery(req[t].account_id, latest[t])) :
                        xlm' = [xlm EXCEPT ![t] = q]
                   /\ Goto(t, "bal_tokens")
                   /\ UNCHANGED resp
    /\ UNCHANGED <<env, lifecycle, path, lconn, conn, req, latest, tables>>

\* Lines 257-274: tokens_result, then the response: native rows, then trustlines.
BalancesTokens(t) ==
    /\ pc[t] = "bal_tokens"
    /\ \E ok \in BOOLEAN :
         /\ Execute(t)
         /\ IF ~ok
              THEN RaiseQ(t, "engine")
              ELSE /\ \E q \in Orderings(TokensQuery(req[t].account_id, latest[t])) :
                        resp' = [resp EXCEPT ![t] = Ok(xlm[t] \o q, latest[t], nq[t] + 1)]
                   /\ Goto(t, "respond")
    /\ UNCHANGED <<env, lifecycle, path, lconn, conn, req, latest, xlm, tables>>

\* Lines 291-295: GET /assets/<asset_code>/holders, latest_ledger = fetchone()[0].
HoldersResolve(t) ==
    /\ pc[t] = "hold_resolve"
    /\ \E ok \in BOOLEAN :
         /\ Execute(t)
         /\ IF ~ok
              THEN RaiseQ(t, "engine") /\ UNCHANGED latest
              ELSE /\ latest' = [latest EXCEPT ![t] = HoldersLatestQuery]
                   /\ Goto(t, "hold_query")
                   /\ UNCHANGED resp
    /\ UNCHANGED <<env, lifecycle, path, lconn, conn, req, xlm, tables>>

\* Lines 299-327: the holders query and the response.  With latest_ledger None
\* the f-string reads "ledger_sequence = None": the engine finds no column None
\* and raises a binder error.
HoldersRun(t) ==
    /\ pc[t] = "hold_query"
    /\ Execute(t)
    /\ \E asset_code \in AssetCodes, limit \in 0..MaxLimit, min_balance \in 0..1 :
         /\ req' = [req EXCEPT ![t].asset_code = asset_code, ![t].limit = limit,
                               ![t].min_balance = min_balance]
         /\ IF latest[t] = None
              THEN RaiseQ(t, "bind")
              ELSE \E ok \in BOOLEAN :
                     IF ~ok
                       THEN RaiseQ(t, "engine")
                       ELSE /\ \E q \in HoldersQuery(asset_code, latest[t],
                                                      min_balance, limit) :
                                 resp' = [resp EXCEPT ![t] = Ok(q, latest[t], nq[t] + 1)]
                            /\ Goto(t, "respond")
    /\ UNCHANGED <<env, lifecycle, path, lconn, conn, latest, xlm, tables>>

\* ---- ingestion: rows appended to the lake by its writers -----------------------
SeqFloor(rows) == IF rows = {} THEN 1 ELSE Max({r.ledger_sequence : r \in rows})

\* A closed ledger is appended to ledgers_row_v2.
AppendLedger ==
    /\ \E s \in LedgerSeqs :
         /\ \A x \in ledgers : x < s
         /\ ledgers' = ledgers \cup {s}
    /\ UNCHANGED <<env, lifecycle, pc, locals, native, trust>>

\* A snapshot row of an account's native balance is appended at the head.
AppendNative ==
    /\ Cardinality(native) < MaxNative
    /\ \E a \in Accounts, s \in Seqs :
         /\ s >= SeqFloor(native)
         /\ \A r \in native : ~(r.account_id = a /\ r.ledger_sequence = s)
         /\ native' = native \cup
              {[account_id |-> a, ledger_sequence |-> s, balance |-> 100 * Scale]}
    /\ UNCHANGED <<env, lifecycle, pc, locals, ledgers, trust>>

\* A snapshot row of a trustline is appended at the head.
AppendTrust ==
    /\ Cardinality(trust) < MaxTrust
    /\ \E a \in Accounts, c \in HeldAssets, s \in Seqs, b \in Balances :
         /\ s >= SeqFloor(trust)
         /\ \A r \in trust :
              ~(r.account_id = a /\ r.asset_code = c /\ r.ledger_sequence = s)
         /\ trust' = trust \cup
              {[account_id |-> a, asset_code |-> c, ledger_sequence |-> s, balance |-> b]}
    /\ UNCHANGED <<env, lifecycle, pc, locals, ledgers, native>>

\* ---- the system ------------------------------------------------------------------
\* The state after the module is loaded (lines 23-26) and before line 385 runs,
\* or before the first request when a host imports the module.
InitProgram ==
    /\ env \in [key_id : BOOLEAN, secret : BOOLEAN, catalog_url : BOOLEAN]
    /\ db_conn = None
    /\ handle = [h \in Handles |-> [stage |-> "none", raised |-> FALSE]]
    /\ ninit = 0
    /\ firstReady = None
    /\ \E start \in {"main_start", "imported"} :
         pc = [c \in Callers |-> IF c = 0 THEN start ELSE "idle"]
    /\ path = [c \in Callers |-> "none"]
    /\ lconn = [c \in Callers |-> None]
    /\ conn = [c \in Callers |-> None]
    /\ req = [c \in Callers |-> NoReq]
    /\ latest = [c \in Callers |-> None]
    /\ xlm = [c \in Callers |-> <<>>]
    /\ nq = [c \in Callers |-> 0]
    /\ resp = [c \in Callers |-> NoResp]

Step(C, W) ==
    \/ MainStart
    \/ \E c \in C : GcCheck(c)
    \/ \E c \in C : InitInstall(c)
    \/ \E c \in C : InitSecret(c)
    \/ \E c \in C : InitAttach(c)
    \/ \E c \in C : InitWarmup(c)
    \/ \E c \in C : GcAssign(c)
    \/ \E c \in C : GcReturn(c)
    \/ \E t \in W : StartRequest(t)
    \/ \E t \in W : Health(t)
    \/ \E t \in W : Deliver(t)
    \/ \E t \in W : GetLedgers(t)
    \/ \E t \in W : GetLedger(t)
    \/ \E t \in W : BalancesResolve(t)
    \/ \E t \in W : BalancesXlm(t)
    \/ \E t \in W : BalancesTokens(t)
    \/ \E t \in W : HoldersResolve(t)
    \/ \E t \in W : HoldersRun(t)

\* The gateway with all its request threads, over a lake that holds still.
Init ==
    /\ InitProgram
    /\ ledgers = {1, 2}
    /\ native = {[account_id |-> "GA", ledger_sequence |-> 1, balance |-> 100 * Scale]}
    /\ trust = {[account_id |-> "GA", asset_code |-> "USDC", ledger_sequence |-> 1,
                 balance |-> Scale]}

Next == Step(Callers, Workers)

Spec == Init /\ [][Next]_vars

\* The gateway started as a script (python3 server.py) with its settings in
\* place and one request thread, over a lake that grows under it.
InitData ==
    /\ InitProgram
    /\ HasCredentials /\ HasCatalogUrl
    /\ pc[0] = "main_start"
    /\ ledgers = {}
    /\ native = {}
    /\ trust = {}

NextData ==
    \/ Step({0, 1}, {1})
    \/ AppendLedger
    \/ AppendNative
    \/ AppendTrust

SpecData == InitData /\ [][NextData]_vars

\* conn.execute(...) is a blocking call made with no timeout and no deadline
\* (lines 138, 180, 213, 256, 257, 295, 315): when the engine never answers,
\* the thread waits in it for good.
ExecuteNeverReturns(t) ==
    /\ pc[t] \in {"ledgers_q", "ledger_q", "bal_resolve", "bal_xlm", "bal_tokens",
                  "hold_resolve", "hold_query"}
    /\ Goto(t, "blocked")
    /\ UNCHANGED <<env, lifecycle, locals, tables>>

\* The gateway started as a script with its settings in place, over the sample
\* lake, with an engine that may leave a query unanswered.  Every thread that
\* can take a step does take one.
InitLive ==
    /\ Init
    /\ HasCredentials /\ HasCatalogUrl
    /\ pc[0] = "main_start"

NextLive ==
    \/ Next
    \/ \E t \in Workers : ExecuteNeverReturns(t)

SpecLive ==
    /\ InitLive
    /\ [][NextLive]_vars
    /\ \A c \in Callers : WF_vars(Step({c}, {c} \ {0}))

\* ---- amounts: what the two balance queries compute from a row -------------------
\* A 64-bit amount of stroops n is written [units, stroops], n = units * 10^7 +
\* stroops with 0 <= stroops < 10^7, which keeps every number of the model
\* inside a machine integer.  The amounts of the model lie below 2^54.
Amt(u, s) == [units |-> u, stroops |-> s]

AmtNorm(u, s) ==
    IF s < 0 THEN Amt(u - 1, s + Scale)
    ELSE IF s >= Scale THEN Amt(u + 1, s - Scale)
    ELSE Amt(u, s)

\* a - b on BIGINT columns: exact.
AmtSub(a, b) == AmtNorm(a.units - b.units, a.stroops - b.stroops)

AmtLess(a, b) ==
    \/ a.units < b.units
    \/ a.units = b.units /\ a.stroops < b.stroops

\* 2^53 = 9007199254740992: up to it a DOUBLE holds every integer.
Pow53 == Amt(900719925, 4740992)

\* CAST(n AS DOUBLE), and the implicit conversion of an integer operand of
\* "/ 10000000.0": n itself below 2^53; from 2^53 to 2^54 the nearest even
\* integer, a tie going to the one whose half is even, which is the multiple of
\* 4 (10^7 is a multiple of 4, so n and its stroops agree modulo 4).
CastDouble(n) ==
    IF AmtLess(n, Pow53) THEN n
    ELSE CASE n.stroops % 2 = 0 -> n
           [] n.stroops % 4 = 1 -> AmtNorm(n.units, n.stroops - 1)
           [] OTHER -> AmtNorm(n.units, n.stroops + 1)

\* x - y on DOUBLEs that hold integers: the exact difference, rounded.
DoubleSub(x, y) == CastDouble(AmtSub(x, y))

\* x / 10000000.0: the reported number is kept as its numerator x, read in
\* units with seven decimals (the quotient's own rounding, half an ulp at most,
\* is left out).
OverScale(x) == x

\* Lines 224-231: the SELECT list of xlm_query on a native row.
XlmSelect(r) ==
    [asset_code |-> "XLM",
     balance |-> OverScale(CastDouble(r.balance)),
     available |-> OverScale(CastDouble(
         AmtSub(AmtSub(r.balance, r.buying_liabilities), r.selling_liabilities))),
     ledger_sequence |-> r.ledger_sequence]

\* Lines 240-247: the SELECT list of tokens_query on a trustline row.
TokensSelect(r) ==
    [asset_code |-> r.asset_code,
     balance |-> OverScale(CastDouble(r.balance)),
     available |-> OverScale(
         DoubleSub(DoubleSub(CastDouble(r.balance), CastDouble(r.buying_liabilities)),
                   CastDouble(r.selling_liabilities))),
     ledger_sequence |-> r.ledger_sequence]

\* Line 256 on rows that carry their liabilities.
BalancesXlmAmounts(t) ==
    /\ pc[t] = "bal_xlm"
    /\ Execute(t)
    /\ \E q \in Orderings({XlmSelect(r) : r \in {x \in native :
                    x.account_id = req[t].account_id /\ x.ledger_sequence = latest[t]}}) :
         xlm' = [xlm EXCEPT ![t] = q]
    /\ Goto(t, "bal_tokens")
    /\ UNCHANGED <<env, lifecycle, path, lconn, conn, req, latest, resp, tables>>

\* Lines 257-274 on rows that carry their liabilities.
BalancesTokensAmounts(t) ==
    /\ pc[t] = "bal_tokens"
    /\ Execute(t)
    /\ \E q \in Orderings({TokensSelect(r) : r \in {x \in trust :
                    /\ x.account_id = req[t].account_id
                    /\ x.ledger_sequence = latest[t]
                    /\ AmtLess(Amt(0, 0), CastDouble(x.balance))}}) :
         resp' = [resp EXCEPT ![t] = Ok(xlm[t] \o q, latest[t], nq[t] + 1)]
    /\ Goto(t, "respond")
    /\ UNCHANGED <<env, lifecycle, path, lconn, conn, req, latest, xlm, tables>>

\* Amounts of the rows: the scenario of 10000 units, small ones, and ones at
\* and above 2^53 stroops.
RowBalances ==
    {Amt(0, 1), Amt(10000, 0), Amt(900719925, 4740991), Amt(900719925, 4740992),
     Amt(900719925, 4740993), Amt(900719925, 4740994), Amt(900719925, 4740995),
     Amt(900719925, 4740996)}

RowBuying == {Amt(0, 0), Amt(0, 1), Amt(0, 2)}

RowSelling == {Amt(0, 0), Amt(0, 1), Amt(10000, 0), Amt(900719925, 4740992)}

\* A /balances request that has resolved sequence 1 for GA, over a lake whose
\* native row and USDC trustline of GA at that sequence hold the same amounts,
\* with liabilities that the balance covers.
InitAmounts ==
    /\ env = [key_id |-> TRUE, secret |-> TRUE, catalog_url |-> TRUE]
    /\ db_conn = 1
    /\ handle = [h \in Handles |->
                   IF h = 1 THEN [stage |-> "warmup", raised |-> FALSE]
                   ELSE [stage |-> "none", raised |-> FALSE]]
    /\ ninit = 1
    /\ firstReady = 1
    /\ pc = [c \in Callers |-> IF c = 0 THEN "serving"
                               ELSE IF c = 1 THEN "bal_xlm" ELSE "idle"]
    /\ path = [c \in Callers |-> IF c = 1 THEN "fast" ELSE "none"]
    /\ lconn = [c \in Callers |-> IF c = 0 THEN 1 ELSE None]
    /\ conn = [c \in Callers |-> IF c \in {0, 1} THEN 1 ELSE None]
    /\ req = [c \in Callers |->
                IF c = 1 THEN [NoReq EXCEPT !.kind = "balances", !.account_id = "GA"]
                ELSE NoReq]
    /\ latest = [c \in Callers |-> IF c = 1 THEN 1 ELSE None]
    /\ xlm = [c \in Callers |-> <<>>]
    /\ nq = [c \in Callers |-> IF c = 1 THEN 1 ELSE 0]
    /\ resp = [c \in Callers |-> NoResp]
    /\ ledgers = {1}
    /\ \E b \in RowBalances, bl \in RowBuying, sl \in RowSelling :
         /\ ~AmtLess(AmtSub(b, bl), sl)
         /\ ~AmtLess(b, bl)
         /\ native = {[account_id |-> "GA", ledger_sequence |-> 1, balance |-> b,
                       buying_liabilities |-> bl, selling_liabilities |-> sl]}
         /\ trust = {[account_id |-> "GA", asset_code |-> "USDC", ledger_sequence |-> 1,
                      balance |-> b, buying_liabilities |-> bl,
                      selling_liabilities |-> sl]}

NextAmounts ==
    \/ BalancesXlmAmounts(1)
    \/ BalancesTokensAmounts(1)

SpecAmounts == InitAmounts /\ [][NextAmounts]_vars

\* ---- properties ------------------------------------------------------------------
InitPcs == {"init_install", "init_secret", "init_attach", "init_warmup", "gc_assign"}

QueryPcs == {"ledgers_q", "ledger_q", "bal_resolve", "bal_xlm", "bal_tokens",
             "hold_resolve", "hold_query"}

\* A response of endpoint k is on its way out of thread t.
Answered(t, k) == pc[t] = "respond" /\ req[t].kind = k

\* C1: callers that find the handle unset together cause one attach/warm-up
\* sequence in all (as long as none has failed, no second handle is ever built),
\* and every one of them is handed the same handle.
C1_OneInitialization ==
    /\ Failures = 0 => ninit <= 1
    /\ \A c \in Callers : path[c] = "slow" /\ conn[c] # None => conn[c] = firstReady

\* C2: Failed is terminal: a get_connection() call made after an initialization
\* has failed (and none has published a handle) fails at once, with a 500, and
\* starts no new initialization.
C2_FailedIsTerminal ==
    [][\A c \in Callers :
         (pc[c] = "gc_check" /\ pc'[c] # "gc_check" /\ Failures >= 1 /\ db_conn = None)
             => /\ pc'[c] = "respond"
                /\ resp'[c].status = 500
                /\ pc'[c] # "init_install"]_vars

\* C5: once an initialization has succeeded, every get_connection() call that
\* finds the handle set returns that same handle.
C5_SameHandleOnceReady ==
    \A c \in Callers : path[c] = "fast" /\ conn[c] # None => conn[c] = firstReady

\* C6: a handler that is about to run a query holds a handle on which the whole
\* of init_ducklake_connection has run without raising, and so does db_conn
\* whenever it is set.
C6_QueriesThroughReadyHandle ==
    /\ \A t \in Workers : pc[t] \in QueryPcs => Ready(conn[t])
    /\ db_conn # None => Ready(db_conn)

\* C6 witness: a handler is about to query while another caller is still inside
\* an initialization of its own.
C6_Witness ==
    \E t \in Workers, c \in Callers :
        /\ pc[t] \in QueryPcs
        /\ pc[c] \in InitPcs \ {"gc_assign"}

C8_HealthIsPure ==
    [][\A t \in Workers :
         pc[t] = "idle" /\ req'[t].kind = "health" =>
             /\ pc'[t] = "respond"
             /\ resp'[t].status = 200
             /\ resp'[t].connection = "active" <=> db_conn # None
             /\ resp'[t].connection \in {"active", "not_initialized"}
             /\ UNCHANGED <<db_conn, handle, ninit, lconn, conn>>
             /\ \A c \in Callers \ {t} : pc'[c] = pc[c]]_vars

\* C8 witness: /health has answered 'not_initialized' after one initialization
\* failed and while another caller is inside the next one.
C8_Witness ==
    \E t \in Workers, c \in Callers :
        /\ Answered(t, "health")
        /\ resp[t].status = 200 /\ resp[t].connection = "not_initialized"
        /\ Failures = 1
        /\ pc[c] \in InitPcs

\* C3: every row of a /balances answer carries the sequence resolved at the start
\* of the request, which is the answer's ledger_sequence.
C3_BalancesPinned ==
    \A t \in Workers :
        Answered(t, "balances") /\ resp[t].status = 200 =>
            /\ resp[t].ledger_sequence = latest[t]
            /\ latest[t] \in Seqs
            /\ \A i \in 1..Len(resp[t].rows) :
                 resp[t].rows[i].ledger_sequence = resp[t].ledger_sequence

\* C3 witness: an answer with the native row and a trustline row, while both
\* tables hold rows of that account at a higher sequence.
C3_Witness ==
    \E t \in Workers :
        /\ Answered(t, "balances") /\ resp[t].status = 200
        /\ Len(resp[t].rows) = 2
        /\ \E r \in native : /\ r.account_id = req[t].account_id
                             /\ r.ledger_sequence > resp[t].ledger_sequence
        /\ \E r \in trust : /\ r.account_id = req[t].account_id
                            /\ r.ledger_sequence > resp[t].ledger_sequence
                            /\ r.balance > 0

\* C4: a resolution that finds no native row of the account ends the request
\* with 404 (or 500 when the resolution query itself raised); the two pinned
\* queries run only with a sequence at which the account has a native row, and
\* a 404 answer has run the resolution query alone.
C4_MissIsNotFound ==
    [][\A t \in Workers :
         /\ ( /\ pc[t] = "bal_resolve" /\ pc'[t] # "bal_resolve"
              /\ {r \in native : r.account_id = req'[t].account_id} = {} )
              => /\ pc'[t] = "respond"
                 /\ \/ resp'[t].status = 404
                    \/ resp'[t].status = 500 /\ resp'[t].err = "engine"
         /\ pc'[t] \in {"bal_xlm", "bal_tokens"} =>
              \E r \in native' : /\ r.account_id = req'[t].account_id
                                 /\ r.ledger_sequence = latest'[t]
         /\ (pc'[t] = "respond" /\ req'[t].kind = "balances" /\ resp'[t].status = 404)
              => resp'[t].queries = 1]_vars

\* C4 witness: a 404 for an account without rows, from a table that holds rows
\* of another account.
C4_Witness ==
    \E t \in Workers :
        /\ Answered(t, "balances") /\ resp[t].status = 404 /\ resp[t].queries = 1
        /\ native # {}
        /\ \A r \in native : r.account_id # req[t].account_id

\* C9: a /assets/{code}/holders request whose queries the engine did not fail is
\* answered 200, with an empty list and count 0 when there is nothing to list.
C9_HoldersNeverError ==
    \A t \in Workers :
        Answered(t, "holders") /\ resp[t].err # "engine" =>
            /\ resp[t].status = 200
            /\ resp[t].count = Len(resp[t].rows)

\* C10: a /ledgers answer holds the limit highest ledgers above sequence_min, in
\* descending order, and count is their number.
C10_LedgersTopDescending ==
    [][\A t \in Workers :
         pc[t] = "ledgers_q" /\ pc'[t] = "respond" /\ resp'[t].status = 200 =>
             LET rows == resp'[t].rows
                 above == {s \in ledgers : s > req'[t].sequence_min}
                 got == {rows[i].sequence : i \in 1..Len(rows)}
             IN  /\ Len(rows) <= req'[t].limit
                 /\ got \subseteq above
                 /\ \A i, j \in 1..Len(rows) : i < j => rows[i].sequence > rows[j].sequence
                 /\ Len(rows) = Min2(req'[t].limit, Cardinality(above))
                 /\ \A x \in got, y \in above \ got : x > y
                 /\ resp'[t].count = Len(rows)]_vars

\* C10 witness: the limit cut the answer short of a ledger above sequence_min,
\* and sequence_min kept another out.
C10_Witness ==
    \E t \in Workers :
        /\ Answered(t, "ledgers") /\ resp[t].status = 200
        /\ Len(resp[t].rows) = 1 /\ req[t].limit = 1
        /\ Cardinality({s \in ledgers : s > req[t].sequence_min}) = 2
        /\ \E s \in ledgers : s <= req[t].sequence_min

\* C11: the resolution of /balances is a function of the dataset and the account
\* alone: for an account with native rows, a resolution query that the engine
\* did not fail yields the highest ledger_sequence among that account's native
\* rows as they are when it runs, whatever requests were served before; two
\* resolutions over the same rows therefore agree.
C11_ResolutionDeterministic ==
    [][\A t \in Workers :
         LET mine == {r \in native : r.account_id = req'[t].account_id}
         IN  (pc[t] = "bal_resolve" /\ pc'[t] # "bal_resolve" /\ mine # {}) =>
                 \/ /\ pc'[t] = "bal_xlm"
                    /\ \E r \in mine : r.ledger_sequence = latest'[t]
                    /\ \A r \in mine : r.ledger_sequence <= latest'[t]
                 \/ /\ pc'[t] = "respond"
                    /\ resp'[t].status = 500 /\ resp'[t].err = "engine"]_vars

\* C11 witness: a resolution has yielded the account's own highest sequence, 1,
\* while the table holds a row of another account at sequence 2.
C11_Witness ==
    \E t \in Workers :
        /\ pc[t] = "bal_xlm" /\ latest[t] = 1
        /\ \A r \in native : r.account_id = req[t].account_id => r.ledger_sequence = 1
        /\ \E r \in native : r.account_id # req[t].account_id /\ r.ledger_sequence = 2

\* C12: in GET /assets/{code}/holders the latest sequence is resolved once, as
\* the highest ledger_sequence of the whole trustline table; a 200 answer reports
\* that sequence, and each of its rows is a trustline row of the asset at
\* exactly that sequence, whatever was appended after the resolution.
C12_HoldersOneSequence ==
    [][\A t \in Workers :
         /\ (pc[t] = "hold_resolve" /\ pc'[t] = "hold_query") =>
                /\ \A r \in trust : r.ledger_sequence <= latest'[t]
                /\ trust # {} => \E r \in trust : r.ledger_sequence = latest'[t]
                /\ trust = {} => latest'[t] = None
         /\ pc[t] = "hold_query" => latest'[t] = latest[t]
         /\ (pc[t] = "hold_query" /\ pc'[t] = "respond" /\ resp'[t].status = 200) =>
                /\ resp'[t].ledger_sequence = latest[t]
                /\ \A i \in 1..Len(resp'[t].rows) :
                     /\ resp'[t].rows[i].asset_code = req'[t].asset_code
                     /\ \E r \in trust :
                          /\ r.ledger_sequence = resp'[t].ledger_sequence
                          /\ r.account_id = resp'[t].rows[i].account_id
                          /\ r.asset_code = resp'[t].rows[i].asset_code
                          /\ r.balance = resp'[t].rows[i].balance * Scale]_vars

\* C12 witness: an answer with a holder row at the resolved sequence, from a
\* table to which a row of that asset at a higher sequence and with a higher
\* balance was appended in the meantime.
C12_Witness ==
    \E t \in Workers :
        /\ Answered(t, "holders") /\ resp[t].status = 200
        /\ Len(resp[t].rows) = 1
        /\ \E r \in trust : /\ r.asset_code = req[t].asset_code
                            /\ r.ledger_sequence > resp[t].ledger_sequence
                            /\ r.balance > resp[t].rows[1].balance * Scale

\* The conn.execute calls in the code of each handler.
QueriesOf(k) ==
    CASE k = "balances" -> 3
      [] k = "holders" -> 2
      [] OTHER -> 1

\* C13: a handler answers 404 only for a miss in the data and 200 only after
\* all its queries have run; an answer given after fewer queries, or any other,
\* is a 500 that names the failed query and leaves db_conn and every handle as
\* they were.  Each conn.execute of a handler runs at most once per request, and
\* a request that has its answer runs nothing more.
C13_QueryFailureIs5xx ==
    [][\A t \in Workers :
         /\ (pc[t] \in QueryPcs /\ pc'[t] = "respond") =>
                /\ resp'[t].status \in {200, 404, 500}
                /\ resp'[t].queries = nq[t] + 1
                /\ resp'[t].status = 404 =>
                      \/ req'[t].kind = "ledger" /\ req'[t].sequence \notin ledgers
                      \/ /\ req'[t].kind = "balances" /\ pc[t] = "bal_resolve"
                         /\ \A r \in native : r.account_id # req'[t].account_id
                /\ resp'[t].status = 200 =>
                      /\ resp'[t].queries = QueriesOf(req'[t].kind)
                      /\ resp'[t].err = ""
                /\ resp'[t].status = 500 =>
                      /\ resp'[t].err \in {"engine", "bind"}
                      /\ resp'[t].rows = <<>>
                      /\ UNCHANGED <<db_conn, handle, ninit>>
         /\ (pc[t] \in QueryPcs /\ pc'[t] # pc[t]) =>
                /\ nq'[t] = nq[t] + 1
                /\ nq'[t] <= QueriesOf(req'[t].kind)
         /\ (pc[t] \in QueryPcs /\ pc'[t] = pc[t]) => nq'[t] = nq[t]
         /\ pc[t] = "respond" => pc'[t] \in {"respond", "idle"}]_vars

\* C13 witness: the second query of a /balances request has failed and the
\* request is answered 500, while another request is about to query through
\* the same handle, which is still the one published.
C13_Witness ==
    \E t, u \in Workers :
        /\ t # u
        /\ Answered(t, "balances")
        /\ resp[t].status = 500 /\ resp[t].err = "engine" /\ resp[t].queries = 2
        /\ pc[u] \in QueryPcs
        /\ conn[u] = conn[t] /\ conn[u] = db_conn /\ Ready(db_conn)

\* C14: a request that has reached one of its queries is eventually answered,
\* also when the engine never returns from the query.
C14_EveryRequestAnswered ==
    \A t \in Workers : (pc[t] \in QueryPcs) ~> (pc[t] = "respond")

\* The row of the lake that a row of a /balances answer was computed from.
StoredRow(row) ==
    IF row.asset_code = "XLM"
      THEN CHOOSE r \in native : r.ledger_sequence = row.ledger_sequence
      ELSE CHOOSE r \in trust : /\ r.ledger_sequence = row.ledger_sequence
                                /\ r.asset_code = row.asset_code

\* Below 2^26 units two amounts one stroop apart are different DOUBLEs after the
\* division by 10^7 (the DOUBLEs are less than 10^-7 apart there).
Pow26Units == Amt(67108864, 0)

\* C15: in every row of a /balances answer, native or trustline, 'available' is
\* the integer balance - buying_liabilities - selling_liabilities of the stored
\* row, scaled down only after the subtraction.  The formula asks it of the rows
\* whose integer difference is below 2^26 units, where the reported number
\* tells every stroop apart.
C15_AvailableIntegerFirst ==
    \A t \in Workers :
        Answered(t, "balances") /\ resp[t].status = 200 =>
            \A i \in 1..Len(resp[t].rows) :
                LET row == resp[t].rows[i]
                    r == StoredRow(row)
                    exact == AmtSub(AmtSub(r.balance, r.buying_liabilities),
                                    r.selling_liabilities)
                IN  AmtLess(exact, Pow26Units) => row.available = OverScale(exact)

\* C16: rows are only ever added to the snapshot tables, and every 200 answer of
\* /balances holds at least one native row, native rows before trustline rows,
\* trustline rows of a positive balance only, and count as the number of rows.
C16_BalancesWellFormed ==
    [][/\ native \subseteq native' /\ trust \subseteq trust'
       /\ \A t \in Workers :
            (pc'[t] = "respond" /\ req'[t].kind = "balances" /\ resp'[t].status = 200) =>
                LET rows == resp'[t].rows
                IN  /\ Len(rows) >= 1
                    /\ rows[1].asset_code = "XLM"
                    /\ \A i, j \in 1..Len(rows) :
                         i < j /\ rows[j].asset_code = "XLM" => rows[i].asset_code = "XLM"
                    /\ \A i \in 1..Len(rows) :
                         rows[i].asset_code # "XLM" => rows[i].balance > 0
                    /\ resp'[t].count = Len(rows)
                    /\ resp'[t].queries = 3]_vars

\* C16 witness: an answer of the native row alone, the account's trustline at
\* the resolved sequence having a zero balance, after a native row of the
\* account was appended at a higher sequence.
C16_Witness ==
    \E t \in Workers :
        /\ Answered(t, "balances") /\ resp[t].status = 200
        /\ Len(resp[t].rows) = 1
        /\ \E r \in trust : /\ r.account_id = req[t].account_id
                            /\ r.ledger_sequence = resp[t].ledger_sequence
                            /\ r.balance = 0
        /\ \E r \in native : /\ r.account_id = req[t].account_id
                             /\ r.ledger_sequence > resp[t].ledger_sequence

====
